---- MODULE Spec2Model ----
(***************************************************************************)
(* Model of watermark_tool.py: EXIF date extraction, the position          *)
(* calculator, the watermark renderer, the directory batch driver and the  *)
(* command-line entry point.                                               *)
(*                                                                         *)
(* Text is modelled as sequences of one-character strings.  File names are *)
(* sequences of symbols, where "." is the dot and every other symbol       *)
(* stands for a dot-free run of characters ("a", "jpg", "_watermarked").   *)
(* Paths are relative to the input directory: <<name>> is a direct child,  *)
(* <<dir, name>> a file inside a sub-directory.                            *)
(*                                                                         *)
(* Environment assumptions: console output (print) always succeeds, and    *)
(* os.makedirs on the output directory succeeds.                           *)
(***************************************************************************)
EXTENDS Integers, Sequences, FiniteSets, TLC

VARIABLES
    pc,        \* position of the program: "main", "glob", "files", "report", "done", "exited", or "idle"
    inputKind, \* what args.input_dir names: "missing", "file" or "dir"
    base,      \* os.path.basename(input_dir), a name
    cfg,       \* [font_size, color, position]
    fs,        \* the file system below input_dir: path -> entry
    extIdx,    \* index into image_extensions of the outer loop
    pending,   \* result of glob.glob for the current extension, not yet iterated
    count,     \* processed_count
    log,       \* the console: sequence of [msg, arg]
    calls,     \* add_watermark invocations of the current run, in order
    produced,  \* output paths written in the current run
    runs,      \* number of process_directory runs started
    history,   \* history[i]: set of paths inside the output directory after run i
    exitCode,  \* process exit status, -1 while running
    xImg,      \* SpecExif: the image handed to get_exif_datetime
    xOut,      \* SpecExif: what get_exif_datetime did
    pIn,       \* SpecPos: arguments of get_position_coordinates
    pOut       \* SpecPos: its return value

vars == <<pc, inputKind, base, cfg, fs, extIdx, pending, count, log, calls,
          produced, runs, history, exitCode, xImg, xOut, pIn, pOut>>

batchVars == <<pc, inputKind, base, cfg, fs, extIdx, pending, count, log, calls,
               produced, runs, history, exitCode>>

-----------------------------------------------------------------------------
(* Bounds of the model *)

MaxFiles == 2
MaxRuns == 2
MaxDim == 5
MaxText == 4

-----------------------------------------------------------------------------
(* Text helpers *)

\* the single element of a singleton set; Only({F(x) : x \in {e}}) is F(e)
\* with e evaluated once
Only(S) == CHOOSE x \in S : TRUE

Digits == <<"0", "1", "2", "3", "4", "5", "6", "7", "8", "9">>

IsDigit(c) == \E i \in 1..10 : Digits[i] = c

DigitVal(c) == (CHOOSE i \in 1..10 : Digits[i] = c) - 1

RECURSIVE NumVal(_)
NumVal(s) == IF s = <<>> THEN 0
             ELSE 10 * NumVal(SubSeq(s, 1, Len(s) - 1)) + DigitVal(s[Len(s)])

AllDigits(s) == \A i \in 1..Len(s) : IsDigit(s[i])

\* str.replace(old, new, n) for one-character old and new
RECURSIVE Replace(_, _, _, _)
Replace(s, old, new, n) ==
    IF s = <<>> \/ n = 0 THEN s
    ELSE IF Head(s) = old THEN <<new>> \o Replace(Tail(s), old, new, n - 1)
    ELSE <<Head(s)>> \o Replace(Tail(s), old, new, n)

\* the pieces of s between occurrences of the character sep
RECURSIVE SplitOn(_, _)
SplitOn(s, sep) ==
    IF \A i \in 1..Len(s) : s[i] # sep THEN <<s>>
    ELSE LET i == CHOOSE k \in 1..Len(s) :
                      s[k] = sep /\ \A j \in 1..(k - 1) : s[j] # sep
         IN <<SubSeq(s, 1, i - 1)>> \o SplitOn(SubSeq(s, i + 1, Len(s)), sep)

\* decimal digits of n, left-padded with zeros to at least width w
RECURSIVE ZeroPad(_, _)
ZeroPad(n, w) ==
    IF n < 10 /\ w <= 1 THEN <<Digits[n + 1]>>
    ELSE ZeroPad(n \div 10, w - 1) \o <<Digits[(n % 10) + 1]>>

-----------------------------------------------------------------------------
(* EXIF date extraction: get_exif_datetime *)

margin == 20

Str_NoDate == <<"N", "o", "-", "D", "a", "t", "e">>

NoneVal == [isNone |-> TRUE, text |-> <<>>]

Some(t) == [isNone |-> FALSE, text |-> t]

IsLeap(y) == (y % 4 = 0 /\ y % 100 # 0) \/ y % 400 = 0

DaysInMonth(y, m) ==
    IF m = 2 THEN (IF IsLeap(y) THEN 29 ELSE 28)
    ELSE IF m \in {4, 6, 9, 11} THEN 30 ELSE 31

\* a field of the format: a run of digits of an allowed length
IsField(f, minLen, maxLen) == Len(f) >= minLen /\ Len(f) <= maxLen /\ AllDigits(f)

\* datetime.strptime(s, '%Y-%m-%d %H:%M:%S'): [ok, y, m, d].  The format's
\* field patterns accept %Y as four digits, the other fields as one or two
\* digits within m 1..12, d 1..31, H 0..23, M 0..59, S 0..61; the space of
\* the format matches one or more spaces; the datetime constructor then
\* rejects year 0, a day beyond the month's length and a second above 59.
\* (The day pattern's space-padded alternative " 7" is not modelled.)
StrptimeFail == [ok |-> FALSE, y |-> 0, m |-> 0, d |-> 0]

NonEmpty(x) == x # <<>>

\* the six fields, separated: the patterns of the format, then the
\* validation of the datetime constructor
StrptimeFields(df, tf) ==
    IF Len(df) # 3 \/ Len(tf) # 3 THEN StrptimeFail
    ELSE IF ~(/\ IsField(df[1], 4, 4) /\ IsField(df[2], 1, 2)
              /\ IsField(df[3], 1, 2) /\ IsField(tf[1], 1, 2)
              /\ IsField(tf[2], 1, 2) /\ IsField(tf[3], 1, 2))
    THEN StrptimeFail
    ELSE Only({ IF /\ v[2] \in 1..12 /\ v[3] \in 1..31 /\ v[4] \in 0..23
                   /\ v[5] \in 0..59 /\ v[6] \in 0..61
                   /\ v[1] >= 1 /\ v[3] <= DaysInMonth(v[1], v[2]) /\ v[6] <= 59
                THEN [ok |-> TRUE, y |-> v[1], m |-> v[2], d |-> v[3]]
                ELSE StrptimeFail :
                v \in {<<NumVal(df[1]), NumVal(df[2]), NumVal(df[3]),
                         NumVal(tf[1]), NumVal(tf[2]), NumVal(tf[3])>>} })

Strptime(s) ==
    Only({ IF Len(SelectSeq(pieces, NonEmpty)) # 2
              \/ pieces[1] = <<>> \/ pieces[Len(pieces)] = <<>>
           THEN StrptimeFail
           ELSE Only({ StrptimeFields(f[1], f[2]) :
                       f \in {<<SplitOn(SelectSeq(pieces, NonEmpty)[1], "-"),
                                SplitOn(SelectSeq(pieces, NonEmpty)[2], ":")>>} }) :
           pieces \in {SplitOn(s, " ")} })

\* dt.strftime('%Y-%m-%d').  The C library decides whether %Y pads a year
\* below 1000 with zeros (glibc does not): padYear is that platform choice.
Strftime(dt, padYear) ==
    (IF padYear THEN ZeroPad(dt.y, 4) ELSE ZeroPad(dt.y, 1))
        \o <<"-">> \o ZeroPad(dt.m, 2) \o <<"-">> \o ZeroPad(dt.d, 2)

\* index of the first DateTime entry of the EXIF dictionary, 0 if none
FirstDateTime(tags) ==
    IF \E i \in 1..Len(tags) : tags[i].tag = "DateTime"
    THEN CHOOSE i \in 1..Len(tags) :
             tags[i].tag = "DateTime" /\ \A j \in 1..(i - 1) : tags[j].tag # "DateTime"
    ELSE 0

\* the DateTime branch of the loop: convert, parse, format
ExifParse(value, padYear) ==
    Only({ IF dt_obj.ok
           THEN [exc |-> FALSE, value |-> Some(Strftime(dt_obj, padYear))]
           ELSE [exc |-> TRUE, value |-> NoneVal] :
           dt_obj \in {Strptime(Replace(value, ":", "-", 2))} })

\* the body of the try block: [exc, value]
ExifTryBody(img, padYear) ==
    IF ~img.open THEN [exc |-> TRUE, value |-> NoneVal]
    ELSE IF img.exif.state = "raises" THEN [exc |-> TRUE, value |-> NoneVal]
    ELSE IF img.exif.state = "none" \/ img.exif.tags = <<>>
         THEN [exc |-> FALSE, value |-> NoneVal]
    ELSE IF FirstDateTime(img.exif.tags) = 0 THEN [exc |-> FALSE, value |-> NoneVal]
    ELSE ExifParse(img.exif.tags[FirstDateTime(img.exif.tags)].value, padYear)

\* a variant whose except clause does not cover the parse error of strptime
get_exif_datetime_ParseErrorEscapes(img, padYear) ==
    Only({ IF b.exc
           THEN [value |-> NoneVal,
                 warned |-> ~(img.open /\ img.exif.state = "dict"),
                 raised |-> img.open /\ img.exif.state = "dict"]
           ELSE [value |-> b.value, warned |-> FALSE, raised |-> FALSE] :
           b \in {ExifTryBody(img, padYear)} })

\* a variant that drops the time part without converting the separators
get_exif_datetime_NoReplace(img, padYear) ==
    Only({ IF b.exc THEN [value |-> NoneVal, warned |-> TRUE, raised |-> FALSE]
           ELSE IF b.value.isNone
           THEN [value |-> NoneVal, warned |-> FALSE, raised |-> FALSE]
           ELSE [value |-> Some(SubSeq(img.exif.tags[FirstDateTime(img.exif.tags)].value,
                                       1, 10)),
                 warned |-> FALSE, raised |-> FALSE] :
           b \in {ExifTryBody(img, padYear)} })

\* get_exif_datetime(image_path): [value, warned, raised].  The except
\* clause catches every exception of the body, prints the warning and
\* falls through to return None.
get_exif_datetime(img, padYear) ==
    Only({ IF b.exc
           THEN [value |-> NoneVal, warned |-> TRUE, raised |-> FALSE]
           ELSE [value |-> b.value, warned |-> FALSE, raised |-> FALSE] :
           b \in {ExifTryBody(img, padYear)} })

-----------------------------------------------------------------------------
(* Position calculator: get_position_coordinates *)

\* a variant with the top-right and bottom-left branches exchanged
get_position_coordinates_Swapped(img_width, img_height, text_width, text_height, position) ==
    IF position = "top-left" THEN <<margin, margin>>
    ELSE IF position = "bottom-left" THEN <<img_width - text_width - margin, margin>>
    ELSE IF position = "top-right" THEN <<margin, img_height - text_height - margin>>
    ELSE IF position = "bottom-right"
         THEN <<img_width - text_width - margin, img_height - text_height - margin>>
    ELSE IF position = "center"
         THEN <<(img_width - text_width) \div 2, (img_height - text_height) \div 2>>
    ELSE <<margin, margin>>

get_position_coordinates(img_width, img_height, text_width, text_height, position) ==
    IF position = "top-left" THEN <<margin, margin>>
    ELSE IF position = "top-right" THEN <<img_width - text_width - margin, margin>>
    ELSE IF position = "bottom-left" THEN <<margin, img_height - text_height - margin>>
    ELSE IF position = "bottom-right"
         THEN <<img_width - text_width - margin, img_height - text_height - margin>>
    ELSE IF position = "center"
         THEN <<(img_width - text_width) \div 2, (img_height - text_height) \div 2>>
    ELSE <<margin, margin>>

-----------------------------------------------------------------------------
(* File system entries and images *)

ExifNone == [state |-> "none", tags |-> <<>>]

ExifRaises == [state |-> "raises", tags |-> <<>>]

ExifDict(tags) == [state |-> "dict", tags |-> tags]

\* a regular file: whether Image.open decodes it, what img._getexif() gives,
\* whether img.save succeeds for it, its size, and (for a file the tool
\* wrote) the text drawn on it
File(open, exif, save, w, h) ==
    [kind |-> "file", open |-> open, exif |-> exif, save |-> save,
     w |-> w, h |-> h, render |-> <<>>]

DirEntry ==
    [kind |-> "dir", open |-> FALSE, exif |-> ExifNone, save |-> FALSE,
     w |-> 0, h |-> 0, render |-> <<>>]

Ts_Good == <<"2", "0", "2", "3", ":", "0", "5", ":", "1", "7", " ",
             "1", "0", ":", "3", "0", ":", "0", "0">>

Ts_Zero == <<"0", "0", "0", "0", ":", "0", "0", ":", "0", "0", " ",
             "0", "0", ":", "0", "0", ":", "0", "0">>

Str_Canon == <<"C", "a", "n", "o", "n">>

K_NotImage  == File(FALSE, ExifNone, FALSE, 0, 0)
K_NoExif    == File(TRUE, ExifNone, TRUE, 100, 50)
K_Dated     == File(TRUE, ExifDict(<<[tag |-> "Make", value |-> Str_Canon],
                                     [tag |-> "DateTime", value |-> Ts_Good]>>),
                    TRUE, 640, 480)
K_BadDate   == File(TRUE, ExifDict(<<[tag |-> "DateTime", value |-> Ts_Zero]>>),
                    TRUE, 640, 480)
K_ExifError == File(TRUE, ExifRaises, TRUE, 640, 480)
K_Unsavable == File(TRUE, ExifNone, FALSE, 640, 480)

Entries == {DirEntry, K_NotImage, K_NoExif, K_Dated, K_BadDate, K_ExifError, K_Unsavable}

-----------------------------------------------------------------------------
(* Names, paths, glob and splitext *)

image_extensions == <<"jpg", "jpeg", "png", "bmp", "tiff", "webp">>

Names == { <<"a", ".", "jpg">>,
           <<"a", ".", "png">>,
           <<"a", "_watermarked", ".", "jpg">>,
           <<"notes", ".", "txt">>,
           <<".", "h", ".", "jpg">>,
           <<"a", ".", "JPG">> }

\* a variant that also matches hidden names
GlobMatch_Hidden(name, ext) ==
    /\ Len(name) >= 2
    /\ name[Len(name) - 1] = "."
    /\ name[Len(name)] = ext

\* fnmatch of a name against '*.<ext>' as glob applies it: a name that
\* starts with a dot is hidden from a pattern that does not
GlobMatch(name, ext) ==
    /\ Len(name) >= 2
    /\ name[1] # "."
    /\ name[Len(name) - 1] = "."
    /\ name[Len(name)] = ext

\* glob.glob(os.path.join(input_dir, '*.<ext>'), recursive=False)
Glob(tree, ext) == {p \in DOMAIN tree : Len(p) = 1 /\ GlobMatch(p[1], ext)}

isfile(tree, p) == p \in DOMAIN tree /\ tree[p].kind = "file"

\* os.path.splitext: the extension starts at the last dot, unless only
\* dots precede it
splitext(name) ==
    LET dots == {i \in 1..Len(name) : name[i] = "."}
    IN  IF dots = {} THEN <<name, <<>>>>
        ELSE LET i == CHOOSE k \in dots : \A j \in dots : j <= k
             IN  IF \E j \in 1..(i - 1) : name[j] # "."
                 THEN <<SubSeq(name, 1, i - 1), SubSeq(name, i, Len(name))>>
                 ELSE <<name, <<>>>>

\* a variant that drops the extension from the output name
output_filename_NoExt(filename) ==
    splitext(filename)[1] \o <<"_watermarked">>

\* f"{name}_watermarked{ext}"
output_filename(filename) ==
    splitext(filename)[1] \o <<"_watermarked">> \o splitext(filename)[2]

\* a variant that writes the outputs into the input directory itself
output_dir_InPlace(b) == <<>>

\* os.path.join(input_dir, f"{os.path.basename(input_dir)}_watermark"),
\* as a path below input_dir
output_dir(b) == <<b \o <<"_watermark">>>>

-----------------------------------------------------------------------------
(* Watermark renderer: add_watermark *)

\* draw.textbbox for the chosen font: the size of the rendered text
TextWidth(text, font_size) == Len(text) * (font_size \div 2)

TextHeight(text, font_size) == font_size

\* the two draw.text calls: the shadow, offset by 2, then the main text
Draws(xy, text, c) ==
    <<[x |-> xy[1] + 2, y |-> xy[2] + 2, text |-> text,
       fill |-> IF c.color = "white" THEN "black" ELSE "white"],
      [x |-> xy[1], y |-> xy[2], text |-> text, fill |-> c.color]>>

\* the rest of the try block once the watermark text is chosen
Render(img, c, e, watermark_text) ==
    IF e.raised
    THEN [exc |-> TRUE, text |-> <<>>, draws |-> <<>>, saved |-> FALSE,
          warned |-> e.warned]
    ELSE IF ~img.open
    THEN [exc |-> TRUE, text |-> watermark_text, draws |-> <<>>,
          saved |-> FALSE, warned |-> e.warned]
    ELSE [exc |-> ~img.save, text |-> watermark_text,
          draws |-> Draws(get_position_coordinates(
                              img.w, img.h,
                              TextWidth(watermark_text, c.font_size),
                              TextHeight(watermark_text, c.font_size),
                              c.position),
                          watermark_text, c),
          saved |-> img.save, warned |-> e.warned]

\* the body of the try block: [exc, text, draws, saved, warned].  The font
\* lookup ends in ImageFont.load_default(), taken to succeed; a failing
\* img.save is taken to leave no file behind.
WatermarkTryBody(img, c, padYear) ==
    Only({ Render(img, c, e, IF e.value.isNone \/ e.value.text = <<>>
                             THEN Str_NoDate ELSE e.value.text) :
           e \in {get_exif_datetime(img, padYear)} })

\* a variant whose except clause does not cover a failing img.save
add_watermark_SaveErrorEscapes(img, c, padYear) ==
    Only({ [text |-> b.text, draws |-> b.draws, saved |-> b.saved,
            warned |-> b.warned, failed |-> b.exc,
            raised |-> b.exc /\ b.draws # <<>>] :
           b \in {WatermarkTryBody(img, c, padYear)} })

\* a variant that draws the shadow with an empty text when no date was found
add_watermark_NoFallback(img, c, padYear) ==
    Only({ [text |-> b.text,
            draws |-> IF b.draws # <<>> /\ b.text = Str_NoDate
                      THEN <<[b.draws[1] EXCEPT !.text = <<>>], b.draws[2]>>
                      ELSE b.draws,
            saved |-> b.saved, warned |-> b.warned,
            failed |-> b.exc, raised |-> FALSE] :
           b \in {WatermarkTryBody(img, c, padYear)} })

\* add_watermark(image_path, output_path, ...): what it drew, whether it
\* saved the output, whether it failed (and logged the error), and whether
\* an exception left it.  The except clause catches every exception of the
\* body.
add_watermark(img, c, padYear) ==
    Only({ [text |-> b.text, draws |-> b.draws, saved |-> b.saved,
            warned |-> b.warned, failed |-> b.exc, raised |-> FALSE] :
           b \in {WatermarkTryBody(img, c, padYear)} })

\* the file img.save writes
Written(img, r) ==
    [kind |-> "file", open |-> TRUE, exif |-> ExifNone, save |-> TRUE,
     w |-> img.w, h |-> img.h, render |-> r.draws]

-----------------------------------------------------------------------------
(* The program: main and process_directory *)

\* the command lines: the defaults on a directory d, and
\* --font-size 12 --color black --position center on a directory pics.jpg
Invocations ==
    { [base |-> <<"d">>,
       cfg  |-> [font_size |-> 36, color |-> "white", position |-> "bottom-right"]],
      [base |-> <<"pics", ".", "jpg">>,
       cfg  |-> [font_size |-> 12, color |-> "black", position |-> "center"]] }

\* the directory contents a run can start from: at most MaxFiles direct
\* children of input_dir, each a sub-directory or a regular file
Trees ==
    UNION { [ {<<n>> : n \in S} -> Entries ] :
            S \in {T \in SUBSET Names : Cardinality(T) <= MaxFiles} }

EmptyTree == [p \in {} |-> DirEntry]

IdleImg == K_NotImage

IdleExifOut == [done |-> FALSE, value |-> NoneVal, warned |-> FALSE, raised |-> FALSE]

IdlePosIn == [w |-> 0, h |-> 0, tw |-> 0, th |-> 0, position |-> "top-left"]

IdlePosOut == [done |-> FALSE, xy |-> <<0, 0>>]

Msg(m, a) == [msg |-> m, arg |-> a]

Init ==
    /\ pc = "main"
    /\ inputKind \in {"missing", "file", "dir"}
    /\ \E a \in Invocations : base = a.base /\ cfg = a.cfg
    /\ fs \in (IF inputKind = "dir" THEN Trees ELSE {EmptyTree})
    /\ extIdx = 1
    /\ pending = {}
    /\ count = 0
    /\ log = <<>>
    /\ calls = <<>>
    /\ produced = {}
    /\ runs = 0
    /\ history = <<>>
    /\ exitCode = -1
    /\ xImg = IdleImg
    /\ xOut = IdleExifOut
    /\ pIn = IdlePosIn
    /\ pOut = IdlePosOut

otherVars == <<xImg, xOut, pIn, pOut>>

\* the warning get_exif_datetime printed, if any
Warning(r, image_path) ==
    IF r.warned THEN <<Msg("Warning: Could not read EXIF data", image_path)>> ELSE <<>>

\* a variant of the validation that accepts any path
isdir_Always(kind) == TRUE

\* os.path.isdir(args.input_dir)
isdir(kind) == kind = "dir"

\* main, input directory missing or not a directory: print the error and
\* sys.exit(1)
MainAbort ==
    /\ pc = "main"
    /\ ~isdir(inputKind)
    /\ log' = Append(log, Msg("Error: Directory does not exist", <<>>))
    /\ exitCode' = 1
    /\ pc' = "exited"
    /\ UNCHANGED <<inputKind, base, cfg, fs, extIdx, pending, count, calls,
                   produced, runs, history>>
    /\ UNCHANGED otherVars

\* main, input directory valid: print the settings and enter
\* process_directory, which creates the output directory and resets the
\* counter
MainProceed ==
    /\ pc = "main"
    /\ isdir(inputKind)
    /\ log' = Append(log, Msg("Processing images in", <<>>))
    /\ fs' = IF output_dir(base) = <<>> \/ output_dir(base) \in DOMAIN fs
             THEN fs ELSE (output_dir(base) :> DirEntry) @@ fs
    /\ count' = 0
    /\ extIdx' = 1
    /\ pending' = {}
    /\ calls' = <<>>
    /\ produced' = {}
    /\ runs' = runs + 1
    /\ pc' = "glob"
    /\ UNCHANGED <<inputKind, base, cfg, history, exitCode>>
    /\ UNCHANGED otherVars

\* for ext in image_extensions: the glob of the current pattern
PD_Glob ==
    /\ pc = "glob"
    /\ pending' = Glob(fs, image_extensions[extIdx])
    /\ pc' = "files"
    /\ UNCHANGED <<inputKind, base, cfg, fs, extIdx, count, log, calls,
                   produced, runs, history, exitCode>>
    /\ UNCHANGED otherVars

\* one iteration of the inner loop over the glob's result (whose order the
\* directory listing decides): a regular file is watermarked and counted
PD_File ==
    /\ pc = "files"
    /\ \E image_path \in pending, padYear \in BOOLEAN :
        /\ pending' = pending \ {image_path}
        /\ IF ~isfile(fs, image_path)
           THEN UNCHANGED <<fs, count, log, calls, produced, pc, exitCode>>
           ELSE \E img \in {fs[image_path]},
                   output_path \in {output_dir(base)
                                      \o <<output_filename(image_path[Len(image_path)])>>} :
                \E r \in {add_watermark(img, cfg, padYear)} :
                    /\ calls' = Append(calls, [path |-> image_path, out |-> output_path,
                                               img |-> img, result |-> r])
                    /\ fs' = IF r.saved THEN (output_path :> Written(img, r)) @@ fs ELSE fs
                    /\ produced' = IF r.saved THEN produced \cup {output_path} ELSE produced
                    /\ IF r.raised
                       THEN /\ log' = log \o Warning(r, image_path)
                            /\ pc' = "crashed"
                            /\ exitCode' = 1
                            /\ UNCHANGED count
                       ELSE /\ log' = log \o Warning(r, image_path) \o
                                      <<Msg(IF r.failed THEN "Error processing" ELSE "Success",
                                            image_path)>>
                            /\ count' = count + 1
                            /\ UNCHANGED <<pc, exitCode>>
    /\ UNCHANGED <<inputKind, base, cfg, extIdx, runs, history>>
    /\ UNCHANGED otherVars

\* the inner loop is exhausted: next extension, or leave the outer loop
PD_NextExt ==
    /\ pc = "files"
    /\ pending = {}
    /\ IF extIdx < Len(image_extensions)
       THEN extIdx' = extIdx + 1 /\ pc' = "glob"
       ELSE extIdx' = extIdx /\ pc' = "report"
    /\ UNCHANGED <<inputKind, base, cfg, fs, pending, count, log, calls,
                   produced, runs, history, exitCode>>
    /\ UNCHANGED otherVars

\* the final report of process_directory; main returns
PD_Report ==
    /\ pc = "report"
    /\ log' = Append(log, IF count = 0
                          THEN Msg("No image files found", <<>>)
                          ELSE Msg("Processed", count))
    /\ history' = Append(history, [tree |-> fs, produced |-> produced, calls |-> calls])
    /\ exitCode' = 0
    /\ pc' = "done"
    /\ UNCHANGED <<inputKind, base, cfg, fs, extIdx, pending, count, calls,
                   produced, runs>>
    /\ UNCHANGED otherVars

\* the tool is run again on the same input directory
Rerun ==
    /\ pc = "done"
    /\ runs < MaxRuns
    /\ pc' = "main"
    /\ exitCode' = -1
    /\ UNCHANGED <<inputKind, base, cfg, fs, extIdx, pending, count, log, calls,
                   produced, runs, history>>
    /\ UNCHANGED otherVars

Next ==
    \/ MainAbort
    \/ MainProceed
    \/ PD_Glob
    \/ PD_File
    \/ PD_NextExt
    \/ PD_Report
    \/ Rerun

Spec == Init /\ [][Next]_vars

-----------------------------------------------------------------------------
(* get_exif_datetime on its own: every image of ExifImages is handed to it *)

Y_0000 == <<"0", "0", "0", "0">>
Y_0999 == <<"0", "9", "9", "9">>
Y_2023 == <<"2", "0", "2", "3">>
Y_2024 == <<"2", "0", "2", "4">>

D2(a, b) == <<a, b>>

TsYears == {Y_0000, Y_0999, Y_2023, Y_2024}
TsMonths == {D2("0", "0"), D2("0", "2"), D2("0", "5"), D2("1", "2"), D2("1", "3")}
TsDays == {D2("0", "0"), D2("1", "7"), D2("2", "9"), D2("3", "0"), D2("3", "1"), D2("3", "2")}
TsHours == {D2("0", "0"), D2("1", "0"), D2("2", "3"), D2("2", "4")}
TsMinutes == {D2("3", "0"), D2("6", "0")}
TsSeconds == {D2("0", "0"), D2("5", "9"), D2("6", "0")}

\* 'YYYY:MM:DD HH:MM:SS' from its fields
MakeTs(y, m, d, hh, mm, ss) ==
    y \o <<":">> \o m \o <<":">> \o d \o <<" ">> \o hh \o <<":">> \o mm \o <<":">> \o ss

ShapedTimestamps ==
    { MakeTs(y, m, d, hh, mm, ss) :
      y \in TsYears, m \in TsMonths, d \in TsDays,
      hh \in TsHours, mm \in TsMinutes, ss \in TsSeconds }

\* values of other shapes: empty, date only, hyphenated, trailing space,
\* two spaces, fields without leading zeros, a five-digit year
OtherTimestamps ==
    { <<>>,
      Y_2023 \o <<":", "0", "5", ":", "1", "7">>,
      Y_2023 \o <<"-", "0", "5", "-", "1", "7", " ", "1", "0", ":", "3", "0", ":", "0", "0">>,
      Ts_Good \o <<" ">>,
      Y_2023 \o <<":", "0", "5", ":", "1", "7", " ", " ", "1", "0", ":", "3", "0", ":", "0", "0">>,
      Y_2023 \o <<":", "5", ":", "7", " ", "1", ":", "2", ":", "3">>,
      <<"1">> \o Ts_Good }

WithDateTime(ts) ==
    File(TRUE, ExifDict(<<[tag |-> "Make", value |-> Str_Canon],
                          [tag |-> "DateTime", value |-> ts]>>), TRUE, 640, 480)

ExifImages ==
    { K_NotImage, K_NoExif, K_ExifError,
      File(TRUE, ExifDict(<<>>), TRUE, 640, 480),
      File(TRUE, ExifDict(<<[tag |-> "Make", value |-> Str_Canon]>>), TRUE, 640, 480),
      File(TRUE, ExifDict(<<[tag |-> "DateTimeOriginal", value |-> Ts_Good]>>),
           TRUE, 640, 480) }
    \cup { WithDateTime(ts) : ts \in ShapedTimestamps \cup OtherTimestamps }

IdleBatch ==
    /\ pc = "idle"
    /\ inputKind = "missing"
    /\ base = <<"d">>
    /\ cfg = [font_size |-> 36, color |-> "white", position |-> "bottom-right"]
    /\ fs = EmptyTree
    /\ extIdx = 1
    /\ pending = {}
    /\ count = 0
    /\ log = <<>>
    /\ calls = <<>>
    /\ produced = {}
    /\ runs = 0
    /\ history = <<>>
    /\ exitCode = -1

InitExif ==
    /\ IdleBatch
    /\ xImg \in ExifImages
    /\ xOut = IdleExifOut
    /\ pIn = IdlePosIn
    /\ pOut = IdlePosOut

\* one call get_exif_datetime(image_path)
ExifCall ==
    /\ ~xOut.done
    /\ \E padYear \in BOOLEAN :
         \E r \in {get_exif_datetime(xImg, padYear)} :
             xOut' = [done |-> TRUE, value |-> r.value, warned |-> r.warned,
                      raised |-> r.raised]
    /\ UNCHANGED batchVars
    /\ UNCHANGED <<xImg, pIn, pOut>>

NextExif == ExifCall

SpecExif == InitExif /\ [][NextExif]_vars

-----------------------------------------------------------------------------
(* get_position_coordinates on its own *)

ImgDims == (0..MaxDim) \cup {40, 41, 640}

TextDims == (0..MaxText) \cup {50}

Positions == {"top-left", "top-right", "bottom-left", "bottom-right", "center",
              "middle", ""}

InitPos ==
    /\ IdleBatch
    /\ xImg = IdleImg
    /\ xOut = IdleExifOut
    /\ pIn \in [w : ImgDims, h : ImgDims, tw : TextDims, th : TextDims,
                position : Positions]
    /\ pOut = IdlePosOut

\* one call get_position_coordinates(img_width, img_height, text_width,
\* text_height, position)
PosCall ==
    /\ ~pOut.done
    /\ pOut' = [done |-> TRUE,
                xy |-> get_position_coordinates(pIn.w, pIn.h, pIn.tw, pIn.th,
                                                pIn.position)]
    /\ UNCHANGED batchVars
    /\ UNCHANGED <<xImg, xOut, pIn>>

NextPos == PosCall

SpecPos == InitPos /\ [][NextPos]_vars

-----------------------------------------------------------------------------
(* Properties *)

\* the names of Names that the tool must process when they name regular
\* files: a listed extension, lower case, not hidden
QualifyingNames == { <<"a", ".", "jpg">>, <<"a", ".", "png">>,
                     <<"a", "_watermarked", ".", "jpg">> }

Qualifying(tree) ==
    {p \in DOMAIN tree : Len(p) = 1 /\ p[1] \in QualifyingNames /\ tree[p].kind = "file"}

CallPaths == {calls[i].path : i \in 1..Len(calls)}

Logged(m) == \E i \in 1..Len(log) : log[i].msg = m

\* C1 (as stated): when a run of process_directory has finished, it has
\* produced exactly one output per qualifying file, and the count it reports
\* equals the number of outputs produced in that run.
C1_OneOutputPerFileAndCount ==
    pc = "done" =>
        /\ Cardinality(produced) = Cardinality(Qualifying(fs))
        /\ count = Cardinality(produced)
        /\ (count > 0 <=> Logged("Processed"))

\* C2: a failing file never stops the batch: no call of add_watermark lets
\* an exception out, the run never crashes, and once the loops are over
\* every qualifying file has been passed to add_watermark.
C2_FailureDoesNotStopBatch ==
    /\ pc # "crashed"
    /\ \A i \in 1..Len(calls) : ~calls[i].result.raised
    /\ pc \in {"report", "done"} => CallPaths = Qualifying(fs)

C2_Witness ==
    /\ pc = "done"
    /\ Len(calls) = 2
    /\ calls[1].result.failed
    /\ calls[1].img = K_Unsavable
    /\ calls[2].result.saved

\* C3: when the input directory is missing or is not a directory, main
\* exits with a non-zero status before any processing: process_directory is
\* never entered, no output directory is created, nothing is read or written.
C3_InvalidInputAborts ==
    inputKind # "dir" =>
        /\ pc \in {"main", "exited"}
        /\ runs = 0
        /\ fs = EmptyTree
        /\ calls = <<>>
        /\ pending = {}
        /\ produced = {}
        /\ exitCode # 0
        /\ pc = "exited" => exitCode = 1 /\ Logged("Error: Directory does not exist")

C3_Witness ==
    /\ pc = "exited"
    /\ inputKind = "missing"
    /\ exitCode = 1
    /\ runs = 0

\* C4: a further run on the same input directory leaves the same set of
\* file names as the run before it, and takes no output of the earlier run
\* as an input.
C4_RerunIdempotent ==
    \A i \in 2..Len(history) :
        /\ DOMAIN history[i].tree = DOMAIN history[i - 1].tree
        /\ history[i].produced = history[i - 1].produced
        /\ \A k \in 1..Len(history[i].calls) :
               history[i].calls[k].path \notin history[i - 1].produced

C4_Witness ==
    /\ Len(history) = 2
    /\ Cardinality(history[1].produced) = 2
    /\ history[2].produced = history[1].produced
    /\ Len(history[2].calls) = 2

\* C5: get_position_coordinates returns, with margin 20, the documented
\* value for each of the five keywords, and (20, 20) for any other keyword.
C5_PositionFormula ==
    pOut.done =>
        /\ pIn.position = "top-left" => pOut.xy = <<20, 20>>
        /\ pIn.position = "top-right" => pOut.xy = <<pIn.w - pIn.tw - 20, 20>>
        /\ pIn.position = "bottom-left" => pOut.xy = <<20, pIn.h - pIn.th - 20>>
        /\ pIn.position = "bottom-right" =>
               pOut.xy = <<pIn.w - pIn.tw - 20, pIn.h - pIn.th - 20>>
        /\ pIn.position = "center" =>
               pOut.xy = <<(pIn.w - pIn.tw) \div 2, (pIn.h - pIn.th) \div 2>>
        /\ pIn.position \notin {"top-left", "top-right", "bottom-left",
                                "bottom-right", "center"} => pOut.xy = <<20, 20>>

C5_Witness ==
    /\ pOut.done
    /\ pIn.position = "top-right"
    /\ pIn.w = 640
    /\ pIn.tw = 50
    /\ pOut.xy = <<570, 20>>

\* the image carries no EXIF metadata, or none with a DateTime field
MissingMetadata(img) ==
    /\ img.open
    /\ \/ img.exif.state = "none"
       \/ /\ img.exif.state = "dict"
          /\ \A i \in 1..Len(img.exif.tags) : img.exif.tags[i].tag # "DateTime"

HasDateTime(img) ==
    /\ img.open
    /\ img.exif.state = "dict"
    /\ \E i \in 1..Len(img.exif.tags) : img.exif.tags[i].tag = "DateTime"

\* the DateTime value of an image of ExifImages that has one
DateTimeOf(img) ==
    img.exif.tags[CHOOSE i \in 1..Len(img.exif.tags) : img.exif.tags[i].tag = "DateTime"].value

\* the shape 'YYYY:MM:DD HH:MM:SS'
WellFormed(ts) ==
    /\ Len(ts) = 19
    /\ \A i \in {1, 2, 3, 4, 6, 7, 9, 10, 12, 13, 15, 16, 18, 19} : IsDigit(ts[i])
    /\ ts[5] = ":" /\ ts[8] = ":" /\ ts[11] = " " /\ ts[14] = ":" /\ ts[17] = ":"

Field(ts, a, b) == NumVal(SubSeq(ts, a, b))

\* a well-formed timestamp that names a date of the calendar and a time of day
ValidDateTime(ts) ==
    /\ Field(ts, 1, 4) >= 1
    /\ Field(ts, 6, 7) \in 1..12
    /\ Field(ts, 9, 10) >= 1
    /\ Field(ts, 9, 10) <= (IF Field(ts, 6, 7) = 2
                            THEN (IF Field(ts, 1, 4) % 4 = 0
                                     /\ (Field(ts, 1, 4) % 100 # 0 \/ Field(ts, 1, 4) % 400 = 0)
                                  THEN 29 ELSE 28)
                            ELSE IF Field(ts, 6, 7) \in {4, 6, 9, 11} THEN 30 ELSE 31)
    /\ Field(ts, 12, 13) <= 23
    /\ Field(ts, 15, 16) <= 59
    /\ Field(ts, 18, 19) <= 59

\* the first two colons replaced by hyphens, the time part dropped
DatePart(ts) == SubSeq(ts, 1, 4) \o <<"-">> \o SubSeq(ts, 6, 7) \o <<"-">> \o SubSeq(ts, 9, 10)

\* C6 (as stated): whenever get_exif_datetime yields no value it has logged
\* a warning, and it never raises.
C6_EveryFailureWarns ==
    xOut.done => /\ ~xOut.raised
                 /\ xOut.value.isNone => xOut.warned

\* C6 (amended): get_exif_datetime never raises; for an unreadable file, an
\* EXIF read that raises, or a DateTime field that does not parse it logs a
\* warning and yields no value; for an image without EXIF metadata or
\* without a DateTime field it yields no value and logs nothing.
C6_WarnsOnlyOnException ==
    xOut.done =>
        /\ ~xOut.raised
        /\ xOut.warned => xOut.value.isNone
        /\ (~xImg.open \/ xImg.exif.state = "raises") => xOut.value.isNone /\ xOut.warned
        /\ MissingMetadata(xImg) => xOut.value.isNone /\ ~xOut.warned
        /\ HasDateTime(xImg) => (xOut.value.isNone <=> xOut.warned)
        /\ (HasDateTime(xImg) /\ WellFormed(DateTimeOf(xImg))
              /\ ~ValidDateTime(DateTimeOf(xImg))) => xOut.value.isNone /\ xOut.warned

C6_Witness ==
    /\ xOut.done
    /\ xImg = K_NoExif
    /\ xOut.value.isNone
    /\ ~xOut.warned
    /\ ~xOut.raised

\* C7: for an image whose EXIF extraction yields no value, add_watermark
\* draws the shadow and the main text with the literal 'No-Date' and does
\* not raise.
C7_NoDateFallback ==
    /\ pc # "crashed"
    /\ \A i \in 1..Len(calls) :
         (calls[i].img.open /\ (MissingMetadata(calls[i].img)
                                \/ calls[i].img.exif.state = "raises"
                                \/ calls[i].img = K_BadDate)) =>
             /\ ~calls[i].result.raised
             /\ calls[i].result.text = <<"N", "o", "-", "D", "a", "t", "e">>
             /\ Len(calls[i].result.draws) = 2
             /\ calls[i].result.draws[1].text = <<"N", "o", "-", "D", "a", "t", "e">>
             /\ calls[i].result.draws[2].text = <<"N", "o", "-", "D", "a", "t", "e">>
             /\ calls[i].result.draws[1].x = calls[i].result.draws[2].x + 2
             /\ calls[i].result.draws[1].y = calls[i].result.draws[2].y + 2

C7_Witness ==
    /\ pc = "done"
    /\ Len(calls) >= 1
    /\ calls[1].img = K_NoExif
    /\ calls[1].result.saved
    /\ ~calls[1].result.failed
    /\ fs[calls[1].out].render[2].text = <<"N", "o", "-", "D", "a", "t", "e">>

\* C8 (as stated): for every DateTime value of the shape
\* 'YYYY:MM:DD HH:MM:SS', get_exif_datetime yields its date part as
\* 'YYYY-MM-DD'.
C8_EveryShapedTimestampYieldsDate ==
    (xOut.done /\ HasDateTime(xImg) /\ WellFormed(DateTimeOf(xImg))) =>
        xOut.value = Some(DatePart(DateTimeOf(xImg)))

\* C8 (amended): for every DateTime value of the shape 'YYYY:MM:DD HH:MM:SS'
\* that names a valid calendar date and time of day with a year of 1000 or
\* later, get_exif_datetime yields 'YYYY-MM-DD' without a warning; for a
\* value of that shape that names no valid date or time it yields no value.
C8_ValidTimestampYieldsDate ==
    (xOut.done /\ HasDateTime(xImg) /\ WellFormed(DateTimeOf(xImg))) =>
        /\ (ValidDateTime(DateTimeOf(xImg)) /\ Field(DateTimeOf(xImg), 1, 4) >= 1000) =>
               xOut.value = Some(DatePart(DateTimeOf(xImg))) /\ ~xOut.warned
        /\ ~ValidDateTime(DateTimeOf(xImg)) => xOut.value.isNone

C8_Witness ==
    /\ xOut.done
    /\ HasDateTime(xImg)
    /\ DateTimeOf(xImg) = Ts_Good
    /\ xOut.value = Some(<<"2", "0", "2", "3", "-", "0", "5", "-", "1", "7">>)

\* C9: when the input directory holds no qualifying file, a finished run has
\* printed 'No image files found' and no processed count, has never called
\* add_watermark, and has written nothing: only the (empty) output
\* directory was added.
C9_NoQualifyingFiles ==
    (pc = "done" /\ Qualifying(fs) = {}) =>
        /\ log[Len(log)].msg = "No image files found"
        /\ ~Logged("Processed")
        /\ calls = <<>>
        /\ produced = {}
        /\ \A p \in DOMAIN fs : Len(p) = 1
        /\ {p \in DOMAIN fs : p[1] \notin Names} = {output_dir(base)}
        /\ fs[output_dir(base)].kind = "dir"

C9_Witness ==
    /\ pc = "done"
    /\ Qualifying(fs) = {}
    /\ <<<<"a", ".", "jpg">>>> \in DOMAIN fs
    /\ <<<<".", "h", ".", "jpg">>>> \in DOMAIN fs
    /\ fs[<<<<".", "h", ".", "jpg">>>>] = K_Dated
    /\ Logged("No image files found")

\* C10: within one run, two distinct input files are given distinct output
\* paths, so no output is written over the output of another input.
C10_OutputPathInjective ==
    /\ \A i, j \in 1..Len(calls) :
           calls[i].path # calls[j].path => calls[i].out # calls[j].out
    /\ Cardinality(produced)
         = Cardinality({i \in 1..Len(calls) : calls[i].result.saved})

C10_Witness ==
    /\ pc = "done"
    /\ Len(calls) = 2
    /\ {calls[1].path, calls[2].path} = {<<<<"a", ".", "jpg">>>>, <<<<"a", ".", "png">>>>}
    /\ calls[1].result.saved
    /\ calls[2].result.saved
    /\ Cardinality(produced) = 2

====
